---- MODULE Spec2Model ----
(***************************************************************************)
(* A model of the catalog service's request handlers: the product listing  *)
(* (query parsing, pagination envelope), the product detail (variant price *)
(* inheritance) and the category handlers, over an opaque storage layer.   *)
(* Go strings are sequences of one-character strings, so that parsing,     *)
(* trimming and case folding are computed as the code computes them.       *)
(***************************************************************************)
EXTENDS Integers, Sequences, FiniteSets, TLC

VARIABLES categories, req, resp, calls, created

vars == <<categories, req, resp, calls, created>>

(***************************************************************************)
(* Bounds of the model.                                                    *)
(***************************************************************************)
MaxCategories == 2
MaxTotal == 2
MaxProducts == 2
MaxVariants == 2

(***************************************************************************)
(* Program constants.                                                      *)
(***************************************************************************)
DefaultOffset == 0
DefaultLimit == 10
MinLimit == 1
MaxLimit == 100
StatusOK == 200
StatusBadRequest == 400
StatusNotFound == 404
StatusInternalServerError == 500

(***************************************************************************)
(* strconv.Atoi: an optional sign followed by at least one decimal digit.  *)
(***************************************************************************)
Digits == <<"0", "1", "2", "3", "4", "5", "6", "7", "8", "9">>

IsDigit(c) == \E i \in 1..Len(Digits) : Digits[i] = c

DigitVal(c) == (CHOOSE i \in 1..Len(Digits) : Digits[i] = c) - 1

RECURSIVE DecVal(_)
DecVal(s) ==
  IF s = <<>> THEN 0
  ELSE 10 * DecVal(SubSeq(s, 1, Len(s) - 1)) + DigitVal(s[Len(s)])

Atoi(s) ==
  LET signed == Len(s) > 0 /\ s[1] \in {"+", "-"}
      body == IF signed THEN Tail(s) ELSE s
  IN  IF body = <<>> \/ \E i \in 1..Len(body) : ~IsDigit(body[i])
      THEN [err |-> TRUE, val |-> 0]
      ELSE [err |-> FALSE,
            val |-> IF signed /\ s[1] = "-" THEN 0 - DecVal(body) ELSE DecVal(body)]

(***************************************************************************)
(* strings.ToUpper and strings.TrimSpace.                                  *)
(***************************************************************************)
LowerLetters ==
  <<"a", "b", "c", "d", "e", "f", "g", "h", "i", "j", "k", "l", "m",
    "n", "o", "p", "q", "r", "s", "t", "u", "v", "w", "x", "y", "z">>

UpperLetters ==
  <<"A", "B", "C", "D", "E", "F", "G", "H", "I", "J", "K", "L", "M",
    "N", "O", "P", "Q", "R", "S", "T", "U", "V", "W", "X", "Y", "Z">>

ToUpperChar(c) ==
  IF \E i \in 1..Len(LowerLetters) : LowerLetters[i] = c
  THEN UpperLetters[CHOOSE i \in 1..Len(LowerLetters) : LowerLetters[i] = c]
  ELSE c

ToUpper(s) == [i \in 1..Len(s) |-> ToUpperChar(s[i])]

IsSpace(c) == c \in {" ", "\t", "\n", "\r"}

RECURSIVE TrimLeft(_)
TrimLeft(s) ==
  IF s # <<>> /\ IsSpace(s[1]) THEN TrimLeft(Tail(s)) ELSE s

RECURSIVE TrimRight(_)
TrimRight(s) ==
  IF s # <<>> /\ IsSpace(s[Len(s)]) THEN TrimRight(SubSeq(s, 1, Len(s) - 1)) ELSE s

TrimSpace(s) == TrimRight(TrimLeft(s))

(***************************************************************************)
(* decimal.Decimal: value * 10^exp.  The zero value Decimal{} is zero.     *)
(***************************************************************************)
Decimal(v, e) == [value |-> v, exp |-> e]

IsZero(d) == d.value = 0

IndexOf(s, cs) ==
  IF \E i \in 1..Len(s) : s[i] \in cs
  THEN CHOOSE i \in 1..Len(s) : s[i] \in cs /\ \A j \in 1..(i - 1) : s[j] \notin cs
  ELSE 0

CountOf(s, c) == Cardinality({i \in 1..Len(s) : s[i] = c})

\* decimal.NewFromString: an optional exponent after e or E, at most one
\* decimal point, and the remaining digits parsed as a signed integer.
NewFromString(s) ==
  LET bad == [err |-> TRUE, val |-> Decimal(0, 0)]
      eIndex == IndexOf(s, {"e", "E"})
      expInt == IF eIndex = 0 THEN [err |-> FALSE, val |-> 0]
                ELSE Atoi(SubSeq(s, eIndex + 1, Len(s)))
      value == IF eIndex = 0 THEN s ELSE SubSeq(s, 1, eIndex - 1)
      pIndex == IndexOf(value, {"."})
      intString == IF pIndex = 0 THEN value
                   ELSE SubSeq(value, 1, pIndex - 1) \o SubSeq(value, pIndex + 1, Len(value))
      exp == IF pIndex = 0 THEN expInt.val ELSE expInt.val - (Len(value) - pIndex)
      parsed == Atoi(intString)
  IN  IF expInt.err THEN bad
      ELSE IF CountOf(value, ".") > 1 THEN bad
      ELSE IF parsed.err THEN bad
      ELSE [err |-> FALSE, val |-> Decimal(parsed.val, exp)]

\* Decimal.InexactFloat64 on the magnitudes a decimal(10,2) column holds: the
\* number itself, whatever the scale it was written with (1.50 and 1.5 are the
\* same float).  A number is kept as its digits without trailing zeros.
RECURSIVE InexactFloat64(_)
InexactFloat64(d) ==
  IF d.value = 0 THEN Decimal(0, 0)
  ELSE IF d.value % 10 = 0 THEN InexactFloat64(Decimal(d.value \div 10, d.exp + 1))
  ELSE d

(***************************************************************************)
(* Errors: nil, or a message with the chain errors.Is walks.               *)
(***************************************************************************)
NoError == [nil |-> TRUE, msg |-> <<>>, chain |-> {}]

Errorf(m) == [nil |-> FALSE, msg |-> m, chain |-> {}]

ErrRecordNotFound == [nil |-> FALSE, msg |-> <<"record not found">>, chain |-> {"ErrRecordNotFound"}]

\* The comparison err == target in place of errors.Is: a wrapped error is missed.
ErrIs_SameValue(err, target) == target = "ErrRecordNotFound" /\ err = ErrRecordNotFound

ErrIs(err, target) == ~err.nil /\ target \in err.chain

\* fmt's %q on a string without quotes, backslashes or control characters.
Quote(s) == <<"\"">> \o s \o <<"\"">>

(***************************************************************************)
(* The query string: each parameter is absent, or present with a value     *)
(* (possibly empty).  url.Values.Get returns "" for an absent parameter.   *)
(***************************************************************************)
Absent == [present |-> FALSE, value |-> <<>>]

Present(v) == [present |-> TRUE, value |-> v]

Get(q, key) == IF q[key].present THEN q[key].value ELSE <<>>

(***************************************************************************)
(* parseQueryOptions and validCategory.                                    *)
(***************************************************************************)
NoPrice == [nil |-> TRUE]

AllowedCategories ==
  { <<"C", "L", "O", "T", "H", "I", "N", "G">>,
    <<"S", "H", "O", "E", "S">>,
    <<"A", "C", "C", "E", "S", "S", "O", "R", "I", "E", "S">> }

\* The allow-list read from the category store as well.
validCategory_FromStore(category) ==
  \/ category \in AllowedCategories
  \/ \E i \in 1..Len(categories) : categories[i].Code = category

validCategory(category) == category \in AllowedCategories

\* The options as the zero value of the struct: no default limit.
DefaultOptions_ZeroValue ==
  [Offset |-> 0, Limit |-> 0, Category |-> <<>>, PriceLessThan |-> NoPrice]

DefaultOptions ==
  [Offset |-> DefaultOffset, Limit |-> DefaultLimit, Category |-> <<>>, PriceLessThan |-> NoPrice]

\* Each step is one `if` block of parseQueryOptions; r is the pair (opts, err)
\* built so far, and a step after a return leaves it alone.
\* parseOffset without the offset < 0 test.
parseOffset_AcceptsNegative(q, r) ==
  LET offsetStr == Get(q, "offset")
      offset == Atoi(offsetStr)
  IN  IF ~r.err.nil \/ offsetStr = <<>> THEN r
      ELSE IF offset.err
      THEN [r EXCEPT !.err = Errorf(<<"invalid offset parameter">>)]
      ELSE [r EXCEPT !.opts.Offset = offset.val]

\* parseOffset guarded by the presence of the parameter (url.Values.Has) in
\* place of a non-empty value: offset= goes to Atoi and fails.
parseOffset_PresenceGuard(q, r) ==
  LET offsetStr == Get(q, "offset")
      offset == Atoi(offsetStr)
  IN  IF ~r.err.nil \/ ~q.offset.present THEN r
      ELSE IF offset.err \/ offset.val < 0
      THEN [r EXCEPT !.err = Errorf(<<"invalid offset parameter">>)]
      ELSE [r EXCEPT !.opts.Offset = offset.val]

parseOffset(q, r) ==
  LET offsetStr == Get(q, "offset")
      offset == Atoi(offsetStr)
  IN  IF ~r.err.nil \/ offsetStr = <<>> THEN r
      ELSE IF offset.err \/ offset.val < 0
      THEN [r EXCEPT !.err = Errorf(<<"invalid offset parameter">>)]
      ELSE [r EXCEPT !.opts.Offset = offset.val]

\* parseLimit with the lower bound off by one (limit < 0).
parseLimit_AcceptsZero(q, r) ==
  LET limitStr == Get(q, "limit")
      limit == Atoi(limitStr)
  IN  IF ~r.err.nil \/ limitStr = <<>> THEN r
      ELSE IF limit.err \/ limit.val < 0 \/ limit.val > MaxLimit
      THEN [r EXCEPT !.err = Errorf(<<"limit must be between 1 and 100">>)]
      ELSE [r EXCEPT !.opts.Limit = limit.val]

parseLimit(q, r) ==
  LET limitStr == Get(q, "limit")
      limit == Atoi(limitStr)
  IN  IF ~r.err.nil \/ limitStr = <<>> THEN r
      ELSE IF limit.err \/ limit.val < MinLimit \/ limit.val > MaxLimit
      THEN [r EXCEPT !.err = Errorf(<<"limit must be between 1 and 100">>)]
      ELSE [r EXCEPT !.opts.Limit = limit.val]

\* parseCategory as it was before the value was trimmed: the raw value is
\* compared case-insensitively and stored upper-cased.
parseCategory_NoTrim(q, r) ==
  LET category == Get(q, "category")
  IN  IF ~r.err.nil \/ category = <<>> THEN r
      ELSE IF ~validCategory(ToUpper(category))
      THEN [r EXCEPT !.err = Errorf(<<"invalid category ">> \o Quote(category))]
      ELSE [r EXCEPT !.opts.Category = ToUpper(category)]

parseCategory(q, r) ==
  LET category == Get(q, "category")
      categoryNormalized == TrimSpace(ToUpper(category))
  IN  IF ~r.err.nil \/ category = <<>> THEN r
      ELSE IF ~validCategory(categoryNormalized)
      THEN [r EXCEPT !.err = Errorf(<<"invalid category ">> \o Quote(category))]
      ELSE [r EXCEPT !.opts.Category = categoryNormalized]

\* parsePriceLessThan ignoring the parse error.
parsePriceLessThan_IgnoresError(q, r) ==
  LET priceStr == Get(q, "price_less_than")
      price == NewFromString(priceStr)
  IN  IF ~r.err.nil \/ priceStr = <<>> THEN r
      ELSE [r EXCEPT !.opts.PriceLessThan = price.val]

parsePriceLessThan(q, r) ==
  LET priceStr == Get(q, "price_less_than")
      price == NewFromString(priceStr)
  IN  IF ~r.err.nil \/ priceStr = <<>> THEN r
      ELSE IF price.err
      THEN [r EXCEPT !.err = Errorf(<<"invalid price_less_than parameter">>)]
      ELSE [r EXCEPT !.opts.PriceLessThan = price.val]

\* parseQueryOptions with limit validated before offset.
parseQueryOptions_LimitFirst(q) ==
  parsePriceLessThan(q,
    parseCategory(q,
      parseOffset(q,
        parseLimit(q, [opts |-> DefaultOptions, err |-> NoError]))))

parseQueryOptions(q) ==
  parsePriceLessThan(q,
    parseCategory(q,
      parseLimit(q,
        parseOffset(q, [opts |-> DefaultOptions, err |-> NoError]))))

(***************************************************************************)
(* Responses: api.ErrorResponse and api.OKResponse.                        *)
(***************************************************************************)
\* An error response that hides the message of a 500 behind a fixed one.
ErrorResponse_GenericOn500(status, message) ==
  [status |-> status,
   body |-> [error |-> IF status = StatusInternalServerError
                       THEN <<"internal server error">> ELSE message]]

ErrorResponse(status, message) == [status |-> status, body |-> [error |-> message]]

OKResponse(data) == [status |-> StatusOK, body |-> data]

NoCategory == [nil |-> TRUE]

CategoryDTO(c) == [code |-> c.Code, name |-> c.Name]

\* The DTO with the category held by value: a product without a category
\* gets the zero CategoryDTO, an object with empty code and name.
ProductDTO_CategoryByValue(p) ==
  [code |-> p.Code,
   price |-> InexactFloat64(p.Price),
   category |-> IF p.Category = NoCategory
                THEN CategoryDTO([Code |-> <<>>, Name |-> <<>>])
                ELSE CategoryDTO(p.Category)]

\* Category is a *CategoryDTO with omitempty: nil (left out of the JSON) unless
\* the record has a category.
ProductDTO(p) ==
  [code |-> p.Code,
   price |-> InexactFloat64(p.Price),
   category |-> IF p.Category = NoCategory THEN NoCategory ELSE CategoryDTO(p.Category)]

(***************************************************************************)
(* Storage calls.  The storage layer is opaque: what it returns is an      *)
(* input of the handler; a call is recorded with its argument and return.  *)
(***************************************************************************)
Call(fn, arg, ret) == [fn |-> fn, arg |-> arg, ret |-> ret]

(***************************************************************************)
(* CatalogHandler.HandleGet                                                *)
(***************************************************************************)
\* The envelope with the page's length as the total.
ListResponse_TotalIsPageLength(res, total, opts) ==
  [products |-> [i \in 1..Len(res) |-> ProductDTO(res[i])],
   total |-> Len(res),
   offset |-> opts.Offset,
   limit |-> opts.Limit]

ListResponse(res, total, opts) ==
  [products |-> [i \in 1..Len(res) |-> ProductDTO(res[i])],
   total |-> total,
   offset |-> opts.Offset,
   limit |-> opts.Limit]

\* out is what GetProducts returns when it is called: (res, total, err).
HandleGetResult(q, out) ==
  LET r == parseQueryOptions(q)
  IN  IF ~r.err.nil
      THEN [resp |-> ErrorResponse(StatusBadRequest, r.err.msg), calls |-> <<>>]
      ELSE IF ~out.err.nil
      THEN [resp |-> ErrorResponse(StatusInternalServerError, out.err.msg),
            calls |-> <<Call("GetProducts", r.opts, out)>>]
      ELSE [resp |-> OKResponse(ListResponse(out.res, out.total, r.opts)),
            calls |-> <<Call("GetProducts", r.opts, out)>>]

(***************************************************************************)
(* CatalogHandler.HandleGetByCode                                          *)
(***************************************************************************)
\* VariantDTO without the inheritance rule: a zero variant price is rendered as is.
VariantDTO_NoInheritance(v, product) ==
  [name |-> v.Name, sku |-> v.SKU, price |-> InexactFloat64(v.Price)]

VariantDTO(v, product) ==
  LET price == IF IsZero(v.Price) THEN product.Price ELSE v.Price
  IN  [name |-> v.Name, sku |-> v.SKU, price |-> InexactFloat64(price)]

ProductDetailResponse(product) ==
  [code |-> product.Code,
   price |-> InexactFloat64(product.Price),
   category |-> IF product.Category = NoCategory THEN NoCategory
                ELSE CategoryDTO(product.Category),
   variants |-> [i \in 1..Len(product.Variants) |->
                   VariantDTO(product.Variants[i], product)]]

\* out is what GetProductByCode returns when it is called: (product, err).
HandleGetByCodeResult(code, out) ==
  IF code = <<>>
  THEN [resp |-> ErrorResponse(StatusBadRequest, <<"product code is required">>),
        calls |-> <<>>]
  ELSE IF ~out.err.nil
  THEN [resp |-> IF ErrIs(out.err, "ErrRecordNotFound")
                 THEN ErrorResponse(StatusNotFound, <<"product not found">>)
                 ELSE ErrorResponse(StatusInternalServerError, out.err.msg),
        calls |-> <<Call("GetProductByCode", code, out)>>]
  ELSE [resp |-> OKResponse(ProductDetailResponse(out.product)),
        calls |-> <<Call("GetProductByCode", code, out)>>]

(***************************************************************************)
(* CategoriesHandler.HandleGetAll and HandleCreate                         *)
(***************************************************************************)
CategoryResponse(c) == [code |-> c.Code, name |-> c.Name]

\* A Go slice as encoding/json sees it: a nil slice is written as null, a
\* slice made with make (of any length, zero included) as an array.
MakeSlice(items) == [nil |-> FALSE, items |-> items]

\* The response list declared without make and grown with append: it stays
\* nil when there is nothing to append.
CategoryResponses_Appended(cs) ==
  IF cs = <<>> THEN [nil |-> TRUE, items |-> <<>>]
  ELSE MakeSlice([i \in 1..Len(cs) |-> CategoryResponse(cs[i])])

\* make([]CategoryResponse, len(categories)), filled index by index.
CategoryResponses(cs) ==
  MakeSlice([i \in 1..Len(cs) |-> CategoryResponse(cs[i])])

\* out is what GetAllCategories returns: (categories, err).
HandleGetAllResult(out) ==
  IF ~out.err.nil
  THEN [resp |-> ErrorResponse(StatusInternalServerError, out.err.msg),
        calls |-> <<Call("GetAllCategories", <<>>, out)>>]
  ELSE [resp |-> OKResponse([categories |-> CategoryResponses(out.categories)]),
        calls |-> <<Call("GetAllCategories", <<>>, out)>>]

\* A request body, as encoding/json sees it: not JSON at all, no body, a JSON
\* value that is no object, null, or an object whose code and name fields
\* are each absent, null, a number or a string.
FieldAbsent == [t |-> "absent", s |-> <<>>]
FieldNull == [t |-> "null", s |-> <<>>]
FieldNumber == [t |-> "number", s |-> <<>>]
FieldString(s) == [t |-> "string", s |-> s]

BodyOther(kind) == [kind |-> kind, code |-> FieldAbsent, name |-> FieldAbsent]
BodyObject(code, name) == [kind |-> "object", code |-> code, name |-> name]

\* json.Decoder.Decode into CreateCategoryRequest: a syntax error, an empty
\* body and a value of the wrong type fail; null and absent fields leave the
\* field at its zero value "".
Decode(body) ==
  IF body.kind \in {"syntax", "empty", "array"}
     \/ (body.kind = "object" /\ (body.code.t = "number" \/ body.name.t = "number"))
  THEN [err |-> TRUE, req |-> [Code |-> <<>>, Name |-> <<>>]]
  ELSE [err |-> FALSE, req |-> [Code |-> body.code.s, Name |-> body.name.s]]

\* The required-fields test with && in place of ||.
RequiredFieldMissing_BothEmpty(r) == r.Code = <<>> /\ r.Name = <<>>

RequiredFieldMissing(r) == r.Code = <<>> \/ r.Name = <<>>

\* HandleCreate calling CreateCategory before the required-fields test.
HandleCreateResult_StoresBeforeValidating(body, createErr) ==
  LET d == Decode(body)
      category == [Code |-> d.req.Code, Name |-> d.req.Name]
  IN  IF d.err
      THEN [resp |-> ErrorResponse(StatusBadRequest, <<"invalid request body">>),
            calls |-> <<>>]
      ELSE IF ~createErr.nil
      THEN [resp |-> ErrorResponse(StatusInternalServerError, createErr.msg),
            calls |-> <<Call("CreateCategory", category, createErr)>>]
      ELSE IF RequiredFieldMissing(d.req)
      THEN [resp |-> ErrorResponse(StatusBadRequest, <<"code and name are required">>),
            calls |-> <<Call("CreateCategory", category, createErr)>>]
      ELSE [resp |-> OKResponse(CategoryResponse(category)),
            calls |-> <<Call("CreateCategory", category, createErr)>>]

\* createErr is what CreateCategory returns when it is called.
HandleCreateResult(body, createErr) ==
  LET d == Decode(body)
      category == [Code |-> d.req.Code, Name |-> d.req.Name]
  IN  IF d.err
      THEN [resp |-> ErrorResponse(StatusBadRequest, <<"invalid request body">>),
            calls |-> <<>>]
      ELSE IF RequiredFieldMissing(d.req)
      THEN [resp |-> ErrorResponse(StatusBadRequest, <<"code and name are required">>),
            calls |-> <<>>]
      ELSE IF ~createErr.nil
      THEN [resp |-> ErrorResponse(StatusInternalServerError, createErr.msg),
            calls |-> <<Call("CreateCategory", category, createErr)>>]
      ELSE [resp |-> OKResponse(CategoryResponse(category)),
            calls |-> <<Call("CreateCategory", category, createErr)>>]

(***************************************************************************)
(* The inputs the model draws from.                                        *)
(***************************************************************************)
SeqsUpTo(S, n) == UNION {[1..k -> S] : k \in 0..n}

OffsetInputs ==
  { Absent, Present(<<>>), Present(<<"0">>), Present(<<"7">>),
    Present(<<"-", "1">>), Present(<<"x">>) }

LimitInputs ==
  { Absent, Present(<<>>), Present(<<"1">>), Present(<<"1", "0", "0">>),
    Present(<<"0">>), Present(<<"1", "0", "1">>), Present(<<"-", "5">>),
    Present(<<"a", "b", "c">>) }

CategoryInputs ==
  { Absent, Present(<<>>), Present(<<"H", "a", "t", "s">>),
    Present(<<"s", "h", "o", "e", "s">>),
    Present(<<" ", "S", "h", "o", "e", "s", " ">>),
    Present(<<"C", "L", "O", "T", "H", "I", "N", "G">>),
    Present(<<" ">>) }

PriceInputs ==
  { Absent, Present(<<>>), Present(<<"1", "0", ".", "5", "0">>),
    Present(<<"1", "0", "0">>),
    Present(<<"i", "n", "v", "a", "l", "i", "d">>) }

Queries ==
  [offset : OffsetInputs, limit : LimitInputs,
   category : CategoryInputs, price_less_than : PriceInputs]

DatabaseError == Errorf(<<"database error">>)

WrappedNotFound ==
  [nil |-> FALSE, msg |-> <<"get product: ", "record not found">>,
   chain |-> {"ErrRecordNotFound"}]

Clothing == [Code |-> <<"C", "L", "O", "T", "H", "I", "N", "G">>, Name |-> <<"C", "l", "o", "t", "h", "i", "n", "g">>]

PriceSamples == {Decimal(0, 0), Decimal(0, -2), Decimal(10000, -2)}

VariantPriceSamples == {Decimal(0, 0), Decimal(0, -2), Decimal(9500, -2), Decimal(100, 0)}

VariantSamples == [Name : {<<"S">>}, SKU : {<<"P", "1", "-", "S">>}, Price : VariantPriceSamples]

\* The records GetProductByCode can return.
ProductSamples ==
  [Code : {<<"P", "1">>}, Price : PriceSamples, Category : {NoCategory, Clothing},
   Variants : SeqsUpTo(VariantSamples, MaxVariants)]

\* The records GetProducts can return in a page.
ListedProducts ==
  { [Code |-> <<"P", "1">>, Price |-> Decimal(9999, -2), Category |-> Clothing, Variants |-> <<>>],
    [Code |-> <<"P", "9">>, Price |-> Decimal(4999, -2), Category |-> NoCategory, Variants |-> <<>>] }

GetProductsReturns ==
  [res : SeqsUpTo(ListedProducts, MaxProducts), total : 0..MaxTotal, err : {NoError}]
    \cup [res : {<<>>}, total : {0}, err : {DatabaseError}]

GetProductByCodeReturns ==
  [product : ProductSamples, err : {NoError}]
    \cup [product : {NoCategory}, err : {ErrRecordNotFound, WrappedNotFound, DatabaseError}]

Codes == {<<>>, <<"P", "1">>, <<"N", "F">>}

CategoryCodeSamples == {<<>>, <<"H", "A", "T", "S">>, <<"h", "a", "t", "s">>}

CategoryNameSamples == {<<>>, <<"H", "a", "t", "s">>}

FieldSamples(S) == {FieldAbsent, FieldNull, FieldNumber} \cup {FieldString(s) : s \in S}

Bodies ==
  {BodyOther(k) : k \in {"syntax", "empty", "array", "null"}}
    \cup {BodyObject(c, n) : c \in FieldSamples(CategoryCodeSamples),
                              n \in FieldSamples(CategoryNameSamples)}

(***************************************************************************)
(* The state machine.  The server takes a request, the handler answers it  *)
(* (req, resp and calls describe the request being answered), and the      *)
(* handler returns.  categories is the category store; created is the      *)
(* history of the bodies of the 200 answers of HandleCreate.               *)
(***************************************************************************)
NoRequest == [op |-> "none"]

NoResponse == [status |-> 0, body |-> [none |-> TRUE]]

Init ==
  /\ categories = <<>>
  /\ req = NoRequest
  /\ resp = NoResponse
  /\ calls = <<>>
  /\ created = <<>>

HandleGet ==
  /\ req = NoRequest
  /\ \E q \in Queries, out \in GetProductsReturns :
       LET r == HandleGetResult(q, out)
       IN  /\ req' = [op |-> "HandleGet", query |-> q]
           /\ resp' = r.resp
           /\ calls' = r.calls
  /\ UNCHANGED <<categories, created>>

HandleGetByCode ==
  /\ req = NoRequest
  /\ \E code \in Codes, out \in GetProductByCodeReturns :
       LET r == HandleGetByCodeResult(code, out)
       IN  /\ req' = [op |-> "HandleGetByCode", code |-> code]
           /\ resp' = r.resp
           /\ calls' = r.calls
  /\ UNCHANGED <<categories, created>>

\* GetAllCategories returns the stored categories, or fails.
GetAllCategoriesReturns ==
  { [categories |-> categories, err |-> NoError],
    [categories |-> <<>>, err |-> DatabaseError] }

HandleGetAll ==
  /\ req = NoRequest
  /\ \E out \in GetAllCategoriesReturns :
       LET r == HandleGetAllResult(out)
       IN  /\ req' = [op |-> "HandleGetAll"]
           /\ resp' = r.resp
           /\ calls' = r.calls
  /\ UNCHANGED <<categories, created>>

\* CreateCategory appending the category before it looks at the error.
CreateCategory_AppendsOnError(stored, cat, createErr) == Append(stored, cat)

\* The store's CreateCategory: with an error nothing is stored, otherwise the
\* category is appended.
CreateCategory(stored, cat, createErr) ==
  IF ~createErr.nil THEN stored ELSE Append(stored, cat)

\* CreateCategory fails, or appends the category to the stored ones.
CreateCategoryReturns ==
  {DatabaseError} \cup IF Len(categories) < MaxCategories THEN {NoError} ELSE {}

HandleCreate ==
  /\ req = NoRequest
  /\ \E body \in Bodies :
       \E createErr \in CreateCategoryReturns :
         LET r == HandleCreateResult(body, createErr)
         IN  /\ req' = [op |-> "HandleCreate", body |-> body]
             /\ resp' = r.resp
             /\ calls' = r.calls
             /\ categories' =
                  IF r.calls # <<>>
                  THEN CreateCategory(categories, r.calls[1].arg, createErr)
                  ELSE categories
             /\ created' =
                  IF r.resp.status = StatusOK THEN Append(created, r.resp.body)
                  ELSE created

\* The handler returns; the server waits for the next request.
Return ==
  /\ req # NoRequest
  /\ req' = NoRequest
  /\ resp' = NoResponse
  /\ calls' = <<>>
  /\ UNCHANGED <<categories, created>>

Next == HandleGet \/ HandleGetByCode \/ HandleGetAll \/ HandleCreate \/ Return

Spec == Init /\ [][Next]_vars

(***************************************************************************)
(* Properties.                                                             *)
(***************************************************************************)
IsGet == req.op = "HandleGet"

IsGetByCode == req.op = "HandleGetByCode"

IsCreate == req.op = "HandleCreate"

FloatZero == Decimal(0, 0)

\* C1: in a successful HandleGetByCode response, each variant's price is the
\* variant's own price when that price is not zero and the product's price
\* when it is zero; so a price of zero is shown only when the product's price
\* is zero.
C1_VariantPriceInheritance ==
  (IsGetByCode /\ resp.status = StatusOK) =>
    LET product == calls[1].ret.product
    IN  /\ Len(resp.body.variants) = Len(product.Variants)
        /\ \A i \in 1..Len(product.Variants) :
             LET own == product.Variants[i].Price
                 shown == resp.body.variants[i].price
             IN  /\ own.value # 0 => shown = InexactFloat64(own)
                 /\ own.value = 0 => shown = InexactFloat64(product.Price)
                 /\ shown = FloatZero => product.Price.value = 0

\* A product priced 100.00 with a zero-priced variant and a 95.00 variant,
\* answered with 100 and 95.
C1_Witness ==
  /\ IsGetByCode /\ resp.status = StatusOK
  /\ calls[1].ret.product.Price = Decimal(10000, -2)
  /\ Len(calls[1].ret.product.Variants) = 2
  /\ calls[1].ret.product.Variants[1].Price = Decimal(0, 0)
  /\ calls[1].ret.product.Variants[2].Price = Decimal(9500, -2)
  /\ resp.body.variants[1].price = Decimal(1, 2)
  /\ resp.body.variants[2].price = Decimal(95, 0)

\* Whether each parameter's own check fails, and the message it fails with.
OffsetFails(q) ==
  LET s == Get(q, "offset") IN s # <<>> /\ (Atoi(s).err \/ Atoi(s).val < 0)

LimitFails(q) ==
  LET s == Get(q, "limit") IN s # <<>> /\ (Atoi(s).err \/ Atoi(s).val \notin MinLimit..MaxLimit)

CategoryFails(q) ==
  LET s == Get(q, "category") IN s # <<>> /\ TrimSpace(ToUpper(s)) \notin AllowedCategories

PriceFails(q) ==
  LET s == Get(q, "price_less_than") IN s # <<>> /\ NewFromString(s).err

OffsetMessage == <<"invalid offset parameter">>

LimitMessage == <<"limit must be between 1 and 100">>

CategoryMessage(q) == <<"invalid category ", "\"">> \o q.category.value \o <<"\"">>

PriceMessage == <<"invalid price_less_than parameter">>

\* C2: HandleGet answers a request with some failing parameter by 400 with
\* exactly the message of the earliest failing one in the order offset,
\* limit, category, price_less_than, and a request with none failing is not
\* answered 400.
C2_FirstFailureInOrder ==
  IsGet =>
    LET q == req.query
    IN  IF OffsetFails(q) THEN resp = ErrorResponse(StatusBadRequest, OffsetMessage)
        ELSE IF LimitFails(q) THEN resp = ErrorResponse(StatusBadRequest, LimitMessage)
        ELSE IF CategoryFails(q) THEN resp = ErrorResponse(StatusBadRequest, CategoryMessage(q))
        ELSE IF PriceFails(q) THEN resp = ErrorResponse(StatusBadRequest, PriceMessage)
        ELSE resp.status # StatusBadRequest

\* All four parameters fail and the offset's message is the answer.
C2_Witness ==
  /\ IsGet
  /\ OffsetFails(req.query) /\ LimitFails(req.query)
  /\ CategoryFails(req.query) /\ PriceFails(req.query)
  /\ resp = ErrorResponse(StatusBadRequest, OffsetMessage)

\* What the claims below call a valid value of each parameter.
IsNonNegativeInteger(s) == ~Atoi(s).err /\ Atoi(s).val >= 0

IsLimitInRange(s) == ~Atoi(s).err /\ Atoi(s).val \in MinLimit..MaxLimit

IsAllowedCategory(s) == TrimSpace(ToUpper(s)) \in AllowedCategories

IsDecimal(s) == ~NewFromString(s).err

OffsetOK(q) == ~q.offset.present \/ IsNonNegativeInteger(q.offset.value)

LimitOK(q) == ~q.limit.present \/ IsLimitInRange(q.limit.value)

CategoryOK(q) == ~q.category.present \/ IsAllowedCategory(q.category.value)

PriceOK(q) == ~q.price_less_than.present \/ IsDecimal(q.price_less_than.value)

\* The filter handed to storage, when the request reached storage.
Filter == calls[1].arg

ReachedStorage == calls # <<>>

\* The statement of C3 for the requests selected by Covered.
LimitStatement(Covered) ==
  (IsGet /\ req.query.limit.present /\ OffsetOK(req.query) /\ Covered) =>
    IF IsLimitInRange(req.query.limit.value)
    THEN /\ resp # ErrorResponse(StatusBadRequest, LimitMessage)
         /\ ReachedStorage => Filter.Limit = Atoi(req.query.limit.value).val
    ELSE resp = ErrorResponse(StatusBadRequest, LimitMessage)

\* C3 as stated: every present limit is accepted exactly when it is an
\* integer in [1,100], and is otherwise answered 400 "limit must be between 1
\* and 100", provided offset is valid or absent.
C3_Original == LimitStatement(TRUE)

\* C3, amended: the same for every present limit whose value is not empty.
C3_LimitRange == LimitStatement(req.query.limit.value # <<>>)

\* limit=101 with no other parameter failing is answered 400 with the limit
\* message.
C3_Witness ==
  /\ IsGet /\ OffsetOK(req.query)
  /\ req.query.limit = Present(<<"1", "0", "1">>)
  /\ req.query.category.present /\ IsAllowedCategory(req.query.category.value)
  /\ resp = ErrorResponse(StatusBadRequest, LimitMessage)

\* The statement of C4 for the requests selected by Covered.
OffsetStatement(Covered) ==
  (IsGet /\ req.query.offset.present /\ Covered) =>
    IF IsNonNegativeInteger(req.query.offset.value)
    THEN /\ resp # ErrorResponse(StatusBadRequest, OffsetMessage)
         /\ ReachedStorage => Filter.Offset = Atoi(req.query.offset.value).val
    ELSE resp = ErrorResponse(StatusBadRequest, OffsetMessage)

\* C4 as stated: every present offset is accepted exactly when it is a
\* non-negative integer, and is otherwise answered 400 "invalid offset
\* parameter", whatever the other three parameters are.
C4_Original == OffsetStatement(TRUE)

\* C4, amended: the same for every present offset whose value is not empty.
C4_OffsetNonNegative == OffsetStatement(req.query.offset.value # <<>>)

\* offset=-1 beside a failing limit, category and price is answered 400 with
\* the offset message.
C4_Witness ==
  /\ IsGet
  /\ req.query.offset = Present(<<"-", "1">>)
  /\ LimitFails(req.query) /\ CategoryFails(req.query) /\ PriceFails(req.query)
  /\ resp = ErrorResponse(StatusBadRequest, OffsetMessage)

\* The statement of C5 for the requests selected by Covered.
CategoryStatement(Covered) ==
  (IsGet /\ req.query.category.present /\ Covered) =>
    IF IsAllowedCategory(req.query.category.value)
    THEN /\ resp # ErrorResponse(StatusBadRequest, CategoryMessage(req.query))
         /\ ReachedStorage => Filter.Category = TrimSpace(ToUpper(req.query.category.value))
         /\ ReachedStorage => Filter.Category \in AllowedCategories
    ELSE resp = ErrorResponse(StatusBadRequest, CategoryMessage(req.query))

\* C5 as stated: every present category whose trimmed, upper-cased form is
\* CLOTHING, SHOES or ACCESSORIES is accepted and the filter carries that
\* form, and every other present category is answered 400 with invalid
\* category and the original value in quotes.
C5_Original == CategoryStatement(TRUE)

\* C5, amended: the same for every present category whose value is not
\* empty, in a request whose offset and limit do not fail first.
C5_CategoryAllowList ==
  CategoryStatement(/\ req.query.category.value # <<>>
                    /\ ~OffsetFails(req.query)
                    /\ ~LimitFails(req.query))

\* category=" Shoes " reaches storage as SHOES.
C5_Witness ==
  /\ IsGet
  /\ req.query.category = Present(<<" ", "S", "h", "o", "e", "s", " ">>)
  /\ ReachedStorage
  /\ Filter.Category = <<"S", "H", "O", "E", "S">>

\* The statement of C6 for the requests selected by Covered.
PriceStatement(Covered) ==
  IsGet =>
    /\ (req.query.price_less_than.present /\ Covered
          /\ OffsetOK(req.query) /\ LimitOK(req.query) /\ CategoryOK(req.query)) =>
         IF IsDecimal(req.query.price_less_than.value)
         THEN /\ ReachedStorage
              /\ Filter.PriceLessThan = NewFromString(req.query.price_less_than.value).val
         ELSE resp = ErrorResponse(StatusBadRequest, PriceMessage)
    /\ (~req.query.price_less_than.present /\ ReachedStorage) =>
         Filter.PriceLessThan = NoPrice

\* C6 as stated: every present price_less_than that parses as a decimal is
\* the filter's PriceLessThan, every other present one is answered 400
\* "invalid price_less_than parameter" (offset, limit and category valid or
\* absent), and an absent one leaves the filter without a price bound.
C6_Original == PriceStatement(TRUE)

\* C6, amended: the same for every present price_less_than whose value is
\* not empty.
C6_PriceLessThan == PriceStatement(req.query.price_less_than.value # <<>>)

\* price_less_than=10.50 reaches storage as the decimal 1050 * 10^-2.
C6_Witness ==
  /\ IsGet
  /\ req.query.price_less_than = Present(<<"1", "0", ".", "5", "0">>)
  /\ ReachedStorage
  /\ Filter.PriceLessThan = Decimal(1050, -2)

\* C7: a request whose parameters are each absent or valid reaches storage;
\* every absent parameter has its default in the filter (offset 0, limit 10,
\* no category, no price bound); and the filter's value for each parameter
\* is the one parsed from that parameter alone, whatever the others are.
C7_IndependentDefaults ==
  IsGet =>
    LET q == req.query
    IN  /\ (OffsetOK(q) /\ LimitOK(q) /\ CategoryOK(q) /\ PriceOK(q)) => ReachedStorage
        /\ ReachedStorage =>
             /\ ~q.offset.present => Filter.Offset = DefaultOffset
             /\ ~q.limit.present => Filter.Limit = DefaultLimit
             /\ ~q.category.present => Filter.Category = <<>>
             /\ ~q.price_less_than.present => Filter.PriceLessThan = NoPrice
             /\ (q.offset.present /\ OffsetOK(q)) =>
                  Filter.Offset = Atoi(q.offset.value).val
             /\ (q.limit.present /\ LimitOK(q)) =>
                  Filter.Limit = Atoi(q.limit.value).val
             /\ (q.category.present /\ CategoryOK(q)) =>
                  Filter.Category = TrimSpace(ToUpper(q.category.value))
             /\ (q.price_less_than.present /\ PriceOK(q)) =>
                  Filter.PriceLessThan = NewFromString(q.price_less_than.value).val

\* Only offset and price_less_than are given: the filter has them and the
\* defaults of limit and category.
C7_Witness ==
  /\ IsGet /\ ReachedStorage
  /\ req.query.offset = Present(<<"7">>) /\ ~req.query.limit.present
  /\ ~req.query.category.present
  /\ req.query.price_less_than = Present(<<"1", "0", "0">>)
  /\ Filter = [Offset |-> 7, Limit |-> DefaultLimit, Category |-> <<>>,
               PriceLessThan |-> Decimal(100, 0)]

StorageSucceeds == \A i \in 1..Len(calls) : calls[i].ret.err.nil

\* The statement of C8 for the requests selected by Covered.
EnvelopeStatement(Covered) ==
  (/\ IsGet /\ Covered
   /\ req.query.limit.present /\ IsLimitInRange(req.query.limit.value)
   /\ req.query.offset.present /\ IsNonNegativeInteger(req.query.offset.value)
   /\ StorageSucceeds) =>
    /\ resp.status = StatusOK
    /\ ReachedStorage
    /\ resp.body.offset = Filter.Offset
    /\ resp.body.offset = Atoi(req.query.offset.value).val
    /\ resp.body.limit = Filter.Limit
    /\ resp.body.limit = Atoi(req.query.limit.value).val
    /\ resp.body.total = calls[1].ret.total

\* C8 as stated: with a limit in [1,100] and an offset >= 0, and storage
\* succeeding, HandleGet answers 200 and the envelope's offset and limit are
\* the values of the filter passed to storage and its total is the total
\* storage returned, however many records came back.
C8_Original == EnvelopeStatement(TRUE)

\* C8, amended: the same for the requests whose category and price_less_than
\* do not fail validation.
C8_EnvelopeEchoesFilter ==
  EnvelopeStatement(~CategoryFails(req.query) /\ ~PriceFails(req.query))

\* limit=100 and offset=7 with an empty page and a total of 2.
C8_Witness ==
  /\ IsGet /\ resp.status = StatusOK
  /\ req.query.limit = Present(<<"1", "0", "0">>)
  /\ req.query.offset = Present(<<"7">>)
  /\ calls[1].ret.res = <<>> /\ calls[1].ret.total = 2
  /\ resp.body.limit = 100 /\ resp.body.offset = 7 /\ resp.body.total = 2

StorageReportsNotFound == ReachedStorage /\ "ErrRecordNotFound" \in calls[1].ret.err.chain

\* C9: HandleGetByCode answers 400 "product code is required" without
\* calling storage when the code is empty; otherwise 404 "product not found"
\* when storage reports not-found, 500 with the storage error's message on
\* any other storage error, and 200 with the mapped product when storage
\* returns one.  The four outcomes exclude one another.
C9_GetByCodeOutcomes ==
  IsGetByCode =>
    /\ resp.status \in {StatusBadRequest, StatusNotFound, StatusInternalServerError, StatusOK}
    /\ resp.status = StatusBadRequest <=> req.code = <<>>
    /\ req.code = <<>> =>
         resp = ErrorResponse(StatusBadRequest, <<"product code is required">>) /\ ~ReachedStorage
    /\ req.code # <<>> =>
         /\ ReachedStorage /\ calls[1].fn = "GetProductByCode" /\ calls[1].arg = req.code
         /\ resp.status = StatusNotFound <=> StorageReportsNotFound
         /\ StorageReportsNotFound =>
              resp = ErrorResponse(StatusNotFound, <<"product not found">>)
         /\ resp.status = StatusInternalServerError <=>
              (~calls[1].ret.err.nil /\ ~StorageReportsNotFound)
         /\ resp.status = StatusInternalServerError =>
              resp.body.error = calls[1].ret.err.msg
         /\ resp.status = StatusOK <=> calls[1].ret.err.nil
         /\ resp.status = StatusOK =>
              /\ resp.body.code = calls[1].ret.product.Code
              /\ resp.body.price = InexactFloat64(calls[1].ret.product.Price)
              /\ Len(resp.body.variants) = Len(calls[1].ret.product.Variants)

\* Storage returns an error that wraps the not-found error and the answer is
\* 404 "product not found".
C9_Witness ==
  /\ IsGetByCode /\ ReachedStorage
  /\ calls[1].ret.err = WrappedNotFound
  /\ resp = ErrorResponse(StatusNotFound, <<"product not found">>)

IsMalformed(body) ==
  \/ body.kind \in {"syntax", "empty", "array"}
  \/ body.kind = "object" /\ (body.code.t = "number" \/ body.name.t = "number")

IsEmptyOrMissing(field) == field.t \in {"absent", "null"} \/ (field.t = "string" /\ field.s = <<>>)

\* C10: HandleCreate answers a malformed body 400 "invalid request body",
\* whatever fields it lacks; a well-formed body whose code or name is empty
\* or missing 400 "code and name are required", a different message; and
\* a well-formed body with both code and name non-empty is not answered 400
\* and goes on to storage.
C10_CreateValidation ==
  IsCreate =>
    LET body == req.body
    IN  /\ IsMalformed(body) =>
             resp = ErrorResponse(StatusBadRequest, <<"invalid request body">>)
        /\ (~IsMalformed(body) /\ (IsEmptyOrMissing(body.code) \/ IsEmptyOrMissing(body.name))) =>
             resp = ErrorResponse(StatusBadRequest, <<"code and name are required">>)
        /\ (~IsMalformed(body) /\ ~IsEmptyOrMissing(body.code) /\ ~IsEmptyOrMissing(body.name)) =>
             /\ resp.status # StatusBadRequest
             /\ ReachedStorage /\ calls[1].fn = "CreateCategory"
             /\ calls[1].arg = [Code |-> body.code.s, Name |-> body.name.s]

\* A body with a code and no name is answered "code and name are required".
C10_Witness ==
  /\ IsCreate
  /\ req.body = BodyObject(FieldString(<<"H", "A", "T", "S">>), FieldAbsent)
  /\ resp = ErrorResponse(StatusBadRequest, <<"code and name are required">>)

IsGetAll == req.op = "HandleGetAll"

\* C11: the store holds exactly the categories of the successful creates,
\* one record each, with the code and name that were returned (so a create
\* answered 500 added nothing); a successful HandleCreate made one
\* CreateCategory call with the payload's code and name and returned that
\* code and name; and a successful HandleGetAll lists every created category
\* as it was returned.
C11_CreatePersistsAndLists ==
  /\ Len(categories) = Len(created)
  /\ \A i \in 1..Len(created) :
       categories[i].Code = created[i].code /\ categories[i].Name = created[i].name
  /\ (IsCreate /\ resp.status = StatusOK) =>
       /\ Len(calls) = 1 /\ calls[1].fn = "CreateCategory"
       /\ calls[1].arg = [Code |-> req.body.code.s, Name |-> req.body.name.s]
       /\ resp.body = [code |-> req.body.code.s, name |-> req.body.name.s]
       /\ created # <<>> /\ created[Len(created)] = resp.body
  /\ (IsGetAll /\ resp.status = StatusOK) =>
       \A i \in 1..Len(created) :
         \E j \in 1..Len(resp.body.categories.items) :
           resp.body.categories.items[j] = created[i]

\* Two different categories were created and HandleGetAll lists the two.
C11_Witness ==
  /\ IsGetAll /\ resp.status = StatusOK
  /\ Len(created) = 2 /\ created[1] # created[2]
  /\ Len(resp.body.categories.items) = 2
  /\ resp.body.categories.items[1] = created[1]
  /\ resp.body.categories.items[2] = created[2]

\* C12: when GetAllCategories returns records without an error, HandleGetAll
\* answers 200 with a list that has one {code, name} per record, in the
\* order of the records and with their code and name; when it returns no
\* records the answer is 200 with the empty list, which is an array and not
\* null.
C12_ListAllMapsRecords ==
  (IsGetAll /\ calls[1].ret.err.nil) =>
    LET records == calls[1].ret.categories
        list    == resp.body.categories
    IN  /\ resp.status = StatusOK
        /\ DOMAIN resp.body = {"categories"}
        /\ ~list.nil
        /\ Len(list.items) = Len(records)
        /\ \A i \in 1..Len(records) :
             list.items[i] = [code |-> records[i].Code, name |-> records[i].Name]
        /\ records = <<>> => resp = OKResponse([categories |-> MakeSlice(<<>>)])

\* HandleGetAll answered 200 with an empty array for a store without records.
C12_Witness ==
  /\ IsGetAll /\ calls[1].ret.err.nil /\ calls[1].ret.categories = <<>>
  /\ resp.status = StatusOK
  /\ ~resp.body.categories.nil /\ resp.body.categories.items = <<>>

RECURSIVE PowerOfTen(_)
PowerOfTen(n) == IF n = 0 THEN 1 ELSE 10 * PowerOfTen(n - 1)

\* a and b (value * 10^exp each) are the same number.
SameNumber(a, b) ==
  LET e == IF a.exp < b.exp THEN a.exp ELSE b.exp
  IN  a.value * PowerOfTen(a.exp - e) = b.value * PowerOfTen(b.exp - e)

\* C13: a successful HandleGet has one product DTO per record GetProducts
\* returned, in the same order; each DTO has its record's code and price,
\* the record's category as {code, name} when the record has one, and no
\* category (nil, not an object with empty fields) when the record has none.
C13_ListMapsRecords ==
  (IsGet /\ resp.status = StatusOK) =>
    LET res  == calls[1].ret.res
        dtos == resp.body.products
    IN  /\ Len(dtos) = Len(res)
        /\ \A i \in 1..Len(res) :
             /\ dtos[i].code = res[i].Code
             /\ SameNumber(dtos[i].price, res[i].Price)
             /\ res[i].Category # NoCategory =>
                  dtos[i].category =
                    [code |-> res[i].Category.Code, name |-> res[i].Category.Name]
             /\ res[i].Category = NoCategory => dtos[i].category = NoCategory

\* A page of two records, the first without a category and the second with
\* one, answered with two DTOs in that order.
C13_Witness ==
  /\ IsGet /\ resp.status = StatusOK
  /\ Len(calls[1].ret.res) = 2
  /\ calls[1].ret.res[1].Category = NoCategory
  /\ calls[1].ret.res[2].Category = Clothing
  /\ resp.body.products[1].code = <<"P", "9">>
  /\ resp.body.products[1].category = NoCategory
  /\ resp.body.products[2].code = <<"P", "1">>
  /\ resp.body.products[2].category = [code |-> Clothing.Code, name |-> Clothing.Name]

\* The error of the request's storage call (CreateCategory returns only an
\* error, the other three a value and an error).
StorageError == IF calls[1].fn = "CreateCategory" THEN calls[1].ret ELSE calls[1].ret.err

\* The storage call failed, and not with product-not-found in HandleGetByCode.
StorageFailed ==
  /\ ReachedStorage
  /\ ~StorageError.nil
  /\ ~(IsGetByCode /\ StorageReportsNotFound)

FailureIsReported ==
  StorageFailed =>
    /\ resp.status = StatusInternalServerError
    /\ resp.body = [error |-> StorageError.msg]

\* C14 as stated: a storage failure is answered 500 with the storage error's
\* message, and every request makes exactly one storage call.
C14_Original ==
  req # NoRequest => (FailureIsReported /\ Len(calls) = 1)

\* C14: in all four operations a storage failure other than product-not-found
\* is answered 500 with the storage error's message; a request makes at most
\* one storage call (so a failure is never retried): exactly one unless it is
\* answered 400, and none when it is answered 400.
C14_StorageFailureIsTerminal ==
  req # NoRequest =>
    /\ FailureIsReported
    /\ Len(calls) <= 1
    /\ resp.status # StatusBadRequest => Len(calls) = 1
    /\ resp.status = StatusBadRequest => calls = <<>>

\* CreateCategory failed and HandleCreate answered 500 with its message after
\* that one call.
C14_Witness ==
  /\ IsCreate /\ Len(calls) = 1 /\ calls[1].fn = "CreateCategory"
  /\ calls[1].ret = DatabaseError
  /\ resp = [status |-> StatusInternalServerError,
             body |-> [error |-> <<"database error">>]]

\* C16: every category code that HandleCreate hands to CreateCategory, and so
\* every code in the store, is in upper case.
C16_CodesAreUpperCase ==
  /\ \A i \in 1..Len(calls) :
       calls[i].fn = "CreateCategory" => calls[i].arg.Code = ToUpper(calls[i].arg.Code)
  /\ \A i \in 1..Len(categories) : categories[i].Code = ToUpper(categories[i].Code)

\* The request fails validation: a failing query parameter in HandleGet, an
\* empty code in HandleGetByCode, a malformed body or an empty or missing
\* code or name in HandleCreate.
ValidationFails ==
  \/ /\ IsGet
     /\ \/ OffsetFails(req.query) \/ LimitFails(req.query)
        \/ CategoryFails(req.query) \/ PriceFails(req.query)
  \/ IsGetByCode /\ req.code = <<>>
  \/ /\ IsCreate
     /\ \/ IsMalformed(req.body)
        \/ IsEmptyOrMissing(req.body.code) \/ IsEmptyOrMissing(req.body.name)

\* C17: handling a request that fails validation makes no storage call and
\* answers 400, and every step that answers 400 makes no storage call and
\* leaves the category store as it was.
C17_ValidationFailureSkipsStorage ==
  /\ [](ValidationFails => (calls = <<>> /\ resp.status = StatusBadRequest))
  /\ [][resp'.status = StatusBadRequest =>
         (calls' = <<>> /\ categories' = categories)]_vars

\* A create without a name was answered 400 without a storage call while the
\* store held a category.
C17_Witness ==
  /\ IsCreate /\ resp.status = StatusBadRequest /\ calls = <<>>
  /\ req.body = BodyObject(FieldString(<<"h", "a", "t", "s">>), FieldAbsent)
  /\ Len(categories) = 1

FixedAllowList ==
  { <<"C", "L", "O", "T", "H", "I", "N", "G">>,
    <<"S", "H", "O", "E", "S">>,
    <<"A", "C", "C", "E", "S", "S", "O", "R", "I", "E", "S">> }

\* The request is GET /catalog?category=X: category is its only parameter.
OnlyCategory ==
  /\ IsGet /\ req.query.category.present
  /\ ~req.query.offset.present /\ ~req.query.limit.present
  /\ ~req.query.price_less_than.present

Normalized(s) == TrimSpace(ToUpper(s))

Accepted == resp.status # StatusBadRequest /\ ReachedStorage

\* Some successful create stored the code c.
Stored(c) == \E i \in 1..Len(categories) : categories[i].Code = c

\* The statement of C18 for the requests selected by Covered.
AllowListStatement(Covered) ==
  (OnlyCategory /\ Covered) =>
    LET X == req.query.category.value
    IN  /\ Accepted <=> Normalized(X) \in FixedAllowList
        /\ (Stored(Normalized(X)) /\ Normalized(X) \notin FixedAllowList) =>
             /\ resp.status = StatusBadRequest
             /\ resp.body = [error |-> <<"invalid category ", "\"">> \o X \o <<"\"">>]

\* C18 as stated: whatever the category store holds, GET /catalog?category=X
\* is accepted exactly when the normalized X is CLOTHING, SHOES or
\* ACCESSORIES, and a stored code outside that set is rejected with 400
\* invalid category.
C18_Original == AllowListStatement(TRUE)

\* C18, amended: the same for every X that is not empty.
C18_AllowListIgnoresStore == AllowListStatement(req.query.category.value # <<>>)

\* HATS was created, and category=Hats is still answered 400 invalid category.
C18_Witness ==
  /\ OnlyCategory /\ req.query.category.value = <<"H", "a", "t", "s">>
  /\ Stored(<<"H", "A", "T", "S">>)
  /\ resp.status = StatusBadRequest
  /\ resp.body = [error |-> <<"invalid category ", "\"", "H", "a", "t", "s", "\"">>]

IsEmptyValue(p) == p.present /\ p.value = <<>>

\* The query with every parameter that is present with an empty value taken
\* out.
WithoutEmptyValues(q) ==
  [key \in DOMAIN q |-> IF IsEmptyValue(q[key]) THEN Absent ELSE q[key]]

\* What GetProducts returned to the request, or any return when it was not
\* called.
Returned ==
  IF ReachedStorage THEN calls[1].ret ELSE [res |-> <<>>, total |-> 0, err |-> NoError]

\* C19: in HandleGet a parameter present with an empty value is treated as an
\* absent one: a 400 answer is due to a parameter with a non-empty value, the
\* filter handed to storage has the default of every parameter with an empty
\* value, and the response and the storage call are those of the request
\* without these parameters.
C19_EmptyValueIsAbsent ==
  IsGet =>
    LET q == req.query
    IN  /\ resp.status = StatusBadRequest =>
             \/ OffsetFails(q) \/ LimitFails(q)
             \/ CategoryFails(q) \/ PriceFails(q)
        /\ ReachedStorage =>
             /\ IsEmptyValue(q.offset) => Filter.Offset = DefaultOffset
             /\ IsEmptyValue(q.limit) => Filter.Limit = DefaultLimit
             /\ IsEmptyValue(q.category) => Filter.Category = <<>>
             /\ IsEmptyValue(q.price_less_than) => Filter.PriceLessThan = NoPrice
        /\ resp = HandleGetResult(WithoutEmptyValues(q), Returned).resp
        /\ calls = HandleGetResult(WithoutEmptyValues(q), Returned).calls

\* offset=&limit=&category=&price_less_than= reached storage with the default
\* filter.
C19_Witness ==
  /\ IsGet /\ ReachedStorage /\ resp.status = StatusOK
  /\ IsEmptyValue(req.query.offset) /\ IsEmptyValue(req.query.limit)
  /\ IsEmptyValue(req.query.category) /\ IsEmptyValue(req.query.price_less_than)
  /\ Filter = [Offset |-> 0, Limit |-> 10, Category |-> <<>>, PriceLessThan |-> NoPrice]

====
